---- MODULE Spec2Model ----
(***************************************************************************)
(* Model of the storage client: HasuraStorageClient (the facade,           *)
(* src/src/hasura-storage-client.ts) on top of HasuraStorageApi (the        *)
(* adapter, src/src/hasura-storage-api.ts).                                 *)
(*                                                                         *)
(* A JavaScript string is a sequence of one-character strings, so that     *)
(* startsWith, match, indexOf, substring and the decoders are computed     *)
(* character by character.  Other JavaScript values are tagged records.    *)
(* Error messages, header names and HTTP methods are opaque labels.        *)
(***************************************************************************)
EXTENDS Integers, Sequences, FiniteSets, TLC

(***************************************************************************)
(* JavaScript values                                                       *)
(***************************************************************************)
Undefined == [t |-> "undefined"]

Null == [t |-> "null"]

Str(s) == [t |-> "string", v |-> s]

Obj(tag) == [t |-> "object", tag |-> tag]

\* new Error(message)
Error(msg) == [t |-> "Error", message |-> msg]

\* the rejection value axios produces for a transport fault
AxiosError(msg) == [t |-> "AxiosError", message |-> msg]

\* throw "<string>": a thrown string, not an Error object
ThrownString(msg) == [t |-> "thrownString", message |-> msg]

\* JavaScript truthiness, as used by `if (x)`, `!x`, `x ? a : b`, `x || y`
Truthy(v) ==
  CASE v.t = "undefined" -> FALSE
    [] v.t = "null" -> FALSE
    [] v.t = "string" -> v.v # <<>>
    [] OTHER -> TRUE

(***************************************************************************)
(* String primitives                                                       *)
(***************************************************************************)
\* String.prototype.startsWith
StartsWith(s, p) == Len(s) >= Len(p) /\ SubSeq(s, 1, Len(p)) = p

\* String.prototype.endsWith
EndsWith(s, p) == Len(s) >= Len(p) /\ SubSeq(s, Len(s) - Len(p) + 1, Len(s)) = p

\* String.prototype.indexOf for a one-character needle: 0-based, -1 when absent
IndexOf(s, c) ==
  IF \E i \in 1..Len(s) : s[i] = c
  THEN (CHOOSE i \in 1..Len(s) : s[i] = c /\ \A j \in 1..(i - 1) : s[j] # c) - 1
  ELSE -1

\* String.prototype.substring(from, to), 0-based, `to` exclusive
Substring(s, from, to) == SubSeq(s, from + 1, to)

\* String.prototype.substring(from)
SubstringFrom(s, from) == SubSeq(s, from + 1, Len(s))

(***************************************************************************)
(* Character tables                                                        *)
(***************************************************************************)
\* the printable ASCII characters in code order, code 32 first
\* (the double quote, the backslash and the backtick are named, not written)
Ascii ==
  <<" ", "!", "dquote", "#", "$", "%", "&", "'", "(", ")", "*", "+", ",", "-", ".", "/",
    "0", "1", "2", "3", "4", "5", "6", "7", "8", "9", ":", ";", "<", "=", ">", "?",
    "@", "A", "B", "C", "D", "E", "F", "G", "H", "I", "J", "K", "L", "M", "N", "O",
    "P", "Q", "R", "S", "T", "U", "V", "W", "X", "Y", "Z", "[", "backslash", "]", "^", "_",
    "backtick", "a", "b", "c", "d", "e", "f", "g", "h", "i", "j", "k", "l", "m", "n", "o",
    "p", "q", "r", "s", "t", "u", "v", "w", "x", "y", "z", "{", "|", "}", "~">>

\* the code of a printable ASCII character (Ascii[1] is the space, code 32)
CharCode(c) == 31 + CHOOSE i \in 1..Len(Ascii) : Ascii[i] = c

Base64Alphabet ==
  <<"A", "B", "C", "D", "E", "F", "G", "H", "I", "J", "K", "L", "M", "N", "O", "P",
    "Q", "R", "S", "T", "U", "V", "W", "X", "Y", "Z", "a", "b", "c", "d", "e", "f",
    "g", "h", "i", "j", "k", "l", "m", "n", "o", "p", "q", "r", "s", "t", "u", "v",
    "w", "x", "y", "z", "0", "1", "2", "3", "4", "5", "6", "7", "8", "9", "+", "/">>

IsBase64Char(c) == \E i \in 1..Len(Base64Alphabet) : Base64Alphabet[i] = c

Base64Value(c) == (CHOOSE i \in 1..Len(Base64Alphabet) : Base64Alphabet[i] = c) - 1

HexDigits ==
  <<"0", "1", "2", "3", "4", "5", "6", "7", "8", "9", "a", "b", "c", "d", "e", "f">>

HexUpper ==
  <<"0", "1", "2", "3", "4", "5", "6", "7", "8", "9", "A", "B", "C", "D", "E", "F">>

IsHex(c) == \E i \in 1..Len(HexDigits) : HexDigits[i] = c \/ HexUpper[i] = c

HexValue(c) == (CHOOSE i \in 1..Len(HexDigits) : HexDigits[i] = c \/ HexUpper[i] = c) - 1

(***************************************************************************)
(* The decoders of ./utils (utf8Bytes, base64Bytes, percentEncodedBytes).  *)
(* The result is a byte sequence, or Malformed when the text cannot be     *)
(* decoded.                                                                *)
(***************************************************************************)
Bytes(b) == [t |-> "bytes", v |-> b]

Malformed == [t |-> "malformed"]

\* utf8Bytes: the UTF-8 encoding of the text (one byte per ASCII character)
RECURSIVE utf8Seq(_)
utf8Seq(s) == IF s = <<>> THEN <<>> ELSE <<CharCode(Head(s))>> \o utf8Seq(Tail(s))

utf8Bytes(s) == Bytes(utf8Seq(s))

\* the text without its trailing "=" padding
RECURSIVE StripPadding(_)
StripPadding(s) ==
  IF s # <<>> /\ s[Len(s)] = "=" THEN StripPadding(SubSeq(s, 1, Len(s) - 1)) ELSE s

\* the bytes of base64 digits, four digits to three bytes
RECURSIVE base64Seq(_)
base64Seq(s) ==
  IF Len(s) < 2 THEN <<>>
  ELSE
    LET a == Base64Value(s[1])
        b == Base64Value(s[2])
        b1 == (a * 4 + b \div 16) % 256
    IN IF Len(s) = 2 THEN <<b1>>
       ELSE
         LET c == Base64Value(s[3])
             b2 == ((b % 16) * 16 + c \div 4) % 256
         IN IF Len(s) = 3 THEN <<b1, b2>>
            ELSE
              LET d == Base64Value(s[4])
                  b3 == ((c % 4) * 64 + d) % 256
              IN <<b1, b2, b3>> \o base64Seq(SubSeq(s, 5, Len(s)))

\* base64Bytes(StringFormat.BASE64, s)
base64Bytes(s) ==
  LET digits == StripPadding(s) IN
  IF (\E i \in 1..Len(digits) : ~IsBase64Char(digits[i])) \/ Len(digits) % 4 = 1
  THEN Malformed
  ELSE Bytes(base64Seq(digits))

\* whether every "%" of the text starts a two-hex-digit escape
RECURSIVE PercentWellFormed(_)
PercentWellFormed(s) ==
  IF s = <<>> THEN TRUE
  ELSE IF Head(s) = "%"
       THEN Len(s) >= 3 /\ IsHex(s[2]) /\ IsHex(s[3])
            /\ PercentWellFormed(SubSeq(s, 4, Len(s)))
       ELSE PercentWellFormed(Tail(s))

RECURSIVE percentSeq(_)
percentSeq(s) ==
  IF s = <<>> THEN <<>>
  ELSE IF Head(s) = "%"
       THEN <<HexValue(s[2]) * 16 + HexValue(s[3])>> \o percentSeq(SubSeq(s, 4, Len(s)))
       ELSE <<CharCode(Head(s))>> \o percentSeq(Tail(s))

\* percentEncodedBytes: the URL-decoded text as bytes
percentEncodedBytes(s) ==
  IF PercentWellFormed(s) THEN Bytes(percentSeq(s)) ELSE Malformed

(***************************************************************************)
(* Completions of a call: it returns a value, raises (the promise is       *)
(* rejected), or is suspended on an HTTP request.                          *)
(***************************************************************************)
Returned(v) == [kind |-> "returned", value |-> v]

Raised(e) == [kind |-> "raised", error |-> e]

Awaiting(req) == [kind |-> "await", request |-> req]

\* a property of a value, undefined when the value has none of that name
Prop(v, k) == IF k \in DOMAIN v THEN v[k] ELSE Undefined

\* an object literal's headers: { ...a, ...b }, where spreading null adds nothing
NoHeaders == [k \in {} |-> Undefined]

Spread(h) == IF h = Null THEN NoHeaders ELSE h

Merge(a, b) ==
  [k \in DOMAIN a \cup DOMAIN b |-> IF k \in DOMAIN b THEN b[k] ELSE a[k]]

(***************************************************************************)
(* HasuraStorageApi: the adapter                                           *)
(***************************************************************************)
CustomStoragePath ==
  <<"/", "c", "u", "s", "t", "o", "m", "/", "s", "t", "o", "r", "a", "g", "e", "/">>

\* the axios instance's baseURL
BaseURL(u, a) == IF Truthy(a) THEN u \o CustomStoragePath \o a.v ELSE u

BearerPrefix == <<"B", "e", "a", "r", "e", "r", " ">>

\* this.accessToken after setAccessToken(accessToken)
setAccessToken(current, t) == t

\* a variant that sends a header for every token that is not undefined
generateAuthHeadersEmptyToken(token) ==
  IF token = Undefined THEN Null
  ELSE [k \in {"Authorization"} |-> BearerPrefix \o token.v]

generateAuthHeaders(token) ==
  IF ~Truthy(token) THEN Null
  ELSE [k \in {"Authorization"} |-> BearerPrefix \o token.v]

\* a variant that forgets the file name
generateUploadHeadersNoName(params) ==
  LET present == {h \in {"bucketId", "id"} : Truthy(Prop(params, h))}
      header == [bucketId |-> "x-nhost-bucket-id", id |-> "x-nhost-file-id"]
  IN [k \in {header[h] : h \in present} |->
        (Prop(params, CHOOSE h \in present : header[h] = k)).v]

generateUploadHeaders(params) ==
  LET present == {h \in {"bucketId", "id", "name"} : Truthy(Prop(params, h))}
      header == [bucketId |-> "x-nhost-bucket-id", id |-> "x-nhost-file-id",
                 name |-> "x-nhost-file-name"]
  IN [k \in {header[h] : h \in present} |->
        (Prop(params, CHOOSE h \in present : header[h] = k)).v]

Request(method, base, path, body, headers) ==
  [method |-> method, baseURL |-> base, url |-> path, body |-> body,
   headers |-> headers]

FilesPath == <<"/", "f", "i", "l", "e", "s">>

PresignedUrlSuffix ==
  <<"/", "p", "r", "e", "s", "i", "g", "n", "e", "d", "u", "r", "l">>

\* the request each adapter method issues before its await
ApiUploadRequest(base, token, params) ==
  Request("POST", base, FilesPath, params.file,
          Merge(generateUploadHeaders(params), Spread(generateAuthHeaders(token))))

ApiGetPresignedUrlRequest(base, token, params) ==
  Request("GET", base, FilesPath \o <<"/">> \o params.fileId \o PresignedUrlSuffix,
          Undefined, Merge(NoHeaders, Spread(generateAuthHeaders(token))))

ApiDeleteRequest(base, token, params) ==
  Request("DELETE", base, FilesPath \o <<"/">> \o params.fileId, Undefined,
          Merge(NoHeaders, Spread(generateAuthHeaders(token))))

MultipartHeader == [k \in {"Content-Type"} |-> <<"multipart/form-data">>]

ApiUploadFileRequest(base, token, path, formData) ==
  Request("POST", base, <<"/", "o">> \o path, formData,
          Merge(MultipartHeader, Spread(generateAuthHeaders(token))))

ApiDeleteFileRequest(base, token, path) ==
  Request("DELETE", base, <<"/", "o">> \o path, Undefined,
          Merge(NoHeaders, Spread(generateAuthHeaders(token))))

ApiGetMetadataRequest(base, token, path) ==
  Request("GET", base, <<"/", "m">> \o path, Undefined,
          Merge(NoHeaders, Spread(generateAuthHeaders(token))))

\* what each adapter method completes with once the HTTP call has settled:
\* http is [ok |-> TRUE, data |-> body] or [ok |-> FALSE, fault |-> error]
ApiUploadSettle(http) ==
  IF http.ok THEN Returned([fileMetadata |-> http.data, error |-> Null])
  ELSE Returned([fileMetadata |-> Null, error |-> http.fault])

ApiGetPresignedUrlSettle(http) ==
  IF http.ok THEN Returned([presignedUrl |-> http.data, error |-> Null])
  ELSE Returned([presignedUrl |-> Null, error |-> http.fault])

\* a variant of delete without its catch
ApiDeleteSettleNoCatch(http) ==
  IF http.ok THEN Returned([error |-> Null]) ELSE Raised(http.fault)

ApiDeleteSettle(http) ==
  IF http.ok THEN Returned([error |-> Null]) ELSE Returned([error |-> http.fault])

ApiUploadFileSettle(http) ==
  IF http.ok THEN Returned([fileMetadata |-> http.data, error |-> Null])
  ELSE Returned([fileMetadata |-> Null, error |-> http.fault])

ApiDeleteFileSettle(http) ==
  IF http.ok THEN Returned([error |-> Null]) ELSE Returned([error |-> http.fault])

ApiGetMetadataSettle(http) ==
  IF http.ok THEN Returned(http.data) ELSE Raised(http.fault)

(***************************************************************************)
(* HasuraStorageClient: the facade                                         *)
(***************************************************************************)
\* let f = new FormData(); f.append("file", x)
FormData(x) == [t |-> "FormData", file |-> x]

PathFault == Error("path must start with /")

InvalidFile == Error("Invalid file returned")

InvalidFileId == Error("Invalid file id")

DataUrlFormatFault ==
  ThrownString("Data must be formatted 'data:[<mediatype>][;base64],<data>")

NoFileData == Error("Unbale to generate file data")

\* raised by the decoders of ./utils on text they cannot decode
MalformedData == Error("Malformed data")

\* upload: up to the await
ClientUploadStart(base, token, params) ==
  Awaiting(ApiUploadRequest(base, token, [params EXCEPT !.file = FormData(params.file)]))

\* a variant that hands an empty, error-free adapter result on to the caller
ClientUploadResultUnchecked(r) ==
  IF Truthy(r.error) THEN Returned([fileMetadata |-> Null, error |-> r.error])
  ELSE Returned([fileMetadata |-> r.fileMetadata, error |-> Null])

\* upload, uploadFileToStorage, uploadStringToStorage: after the await
ClientUploadResult(r) ==
  IF Truthy(r.error) THEN Returned([fileMetadata |-> Null, error |-> r.error])
  ELSE IF ~Truthy(r.fileMetadata)
       THEN Returned([fileMetadata |-> Null, error |-> InvalidFile])
       ELSE Returned([fileMetadata |-> r.fileMetadata, error |-> Null])

\* a variant that builds the tenant form on the base url
getUrlOnBase(u, a, params) ==
  IF Truthy(a)
  THEN u \o CustomStoragePath \o a.v \o <<"/", "o", "/">> \o params.fileId
  ELSE u \o FilesPath \o <<"/">> \o params.fileId

getUrl(u, a, params) ==
  IF Truthy(a)
  THEN CustomStoragePath \o a.v \o <<"/", "o", "/">> \o params.fileId
  ELSE u \o FilesPath \o <<"/">> \o params.fileId

ClientGetPresignedUrlStart(base, token, params) ==
  Awaiting(ApiGetPresignedUrlRequest(base, token, params))

ClientGetPresignedUrlResult(r) ==
  IF Truthy(r.error) THEN Returned([presignedUrl |-> Null, error |-> r.error])
  ELSE IF ~Truthy(r.presignedUrl)
       THEN Returned([presignedUrl |-> Null, error |-> InvalidFileId])
       ELSE Returned([presignedUrl |-> r.presignedUrl, error |-> Null])

ClientDeleteStart(base, token, params) ==
  Awaiting(ApiDeleteRequest(base, token, params))

\* a variant that throws the adapter's error
ClientDeleteResultThrows(r) ==
  IF Truthy(r.error) THEN Raised(r.error)
  ELSE Returned([error |-> Null])

\* delete, deleteFile: after the await
ClientDeleteResult(r) ==
  IF Truthy(r.error) THEN Returned([error |-> r.error])
  ELSE Returned([error |-> Null])

uploadFileToStorageStart(base, token, params) ==
  IF ~StartsWith(params.path, <<"/">>) THEN Raised(PathFault)
  ELSE Awaiting(ApiUploadFileRequest(base, token, params.path, FormData(params.file)))

DataPrefix == <<"d", "a", "t", "a", ":">>

Base64Suffix == <<";", "b", "a", "s", "e", "6", "4">>

\* a variant of the pattern without its anchor: data:([^,]+)?, anywhere
DataUrlMatchUnanchored(data) ==
  IF \E i \in 1..Len(data) :
       /\ StartsWith(SubSeq(data, i, Len(data)), DataPrefix)
       /\ IndexOf(SubSeq(data, i + 5, Len(data)), ",") >= 0
  THEN LET i == CHOOSE j \in 1..Len(data) :
                  /\ StartsWith(SubSeq(data, j, Len(data)), DataPrefix)
                  /\ IndexOf(SubSeq(data, j + 5, Len(data)), ",") >= 0
                  /\ \A k \in 1..(j - 1) :
                       ~(/\ StartsWith(SubSeq(data, k, Len(data)), DataPrefix)
                         /\ IndexOf(SubSeq(data, k + 5, Len(data)), ",") >= 0)
           comma == i + 4 + IndexOf(SubSeq(data, i + 5, Len(data)), ",")
       IN <<Str(Substring(data, i - 1, comma + 1)),
            IF comma > i + 4 THEN Str(Substring(data, i + 4, comma)) ELSE Undefined>>
  ELSE Null

\* params.data.match(/^data:([^,]+)?,/): null, or <<the match, group 1>> where
\* group 1 is undefined when the optional group took no part
DataUrlMatch(data) ==
  LET afterPrefix == SubstringFrom(data, Len(DataPrefix))
      comma == Len(DataPrefix) + IndexOf(afterPrefix, ",")
  IN IF StartsWith(data, DataPrefix) /\ IndexOf(afterPrefix, ",") >= 0
     THEN <<Str(Substring(data, 0, comma + 1)),
            IF comma > Len(DataPrefix)
            THEN Str(Substring(data, Len(DataPrefix), comma))
            ELSE Undefined>>
     ELSE Null

\* a variant that keeps the ;base64 suffix in the content type
DataUrlContentTypeUnstripped(middle) == middle.v

\* the content type of a data URL whose header segment is `middle`
DataUrlContentType(middle) ==
  IF EndsWith(middle.v, Base64Suffix)
  THEN Substring(middle.v, 0, Len(middle.v) - Len(Base64Suffix))
  ELSE middle.v

\* the data_url branch: [fileData, contentType], or what it raises
EncodeDataUrl(data) ==
  LET matches == DataUrlMatch(data) IN
  IF matches = Null THEN Raised(DataUrlFormatFault)
  ELSE
    LET middle == IF Truthy(matches[2]) THEN matches[2] ELSE Null
        isBase64 == IF middle # Null THEN EndsWith(middle.v, Base64Suffix) ELSE FALSE
        contentType == IF middle # Null THEN Str(DataUrlContentType(middle))
                       ELSE Undefined
        restData == SubstringFrom(data, IndexOf(data, ",") + 1)
        fileData == IF isBase64 THEN base64Bytes(restData)
                    ELSE percentEncodedBytes(restData)
    IN IF fileData = Malformed THEN Raised(MalformedData)
       ELSE Returned([fileData |-> fileData, contentType |-> contentType])

RawType == <<"r", "a", "w">>

DataUrlType == <<"d", "a", "t", "a", "_", "u", "r", "l">>

\* the raw branch
EncodeRaw(params) ==
  Returned([fileData |-> utf8Bytes(params.data),
            contentType |->
              IF Truthy(params.metadata) /\ "content-type" \in DOMAIN params.metadata
              THEN params.metadata["content-type"]
              ELSE Undefined])

\* fileData and contentType as uploadStringToStorage computes them
EncodeString(params) ==
  LET type == IF ~Truthy(params.type) THEN Str(RawType) ELSE params.type IN
  IF type.v = RawType THEN EncodeRaw(params)
  ELSE IF type.v = DataUrlType THEN EncodeDataUrl(params.data)
       ELSE Returned([fileData |-> Undefined, contentType |-> Undefined])

Untitled == <<"u", "n", "t", "i", "t", "l", "e", "d">>

\* new File([fileData], "untitled", { type: contentType })
File(fileData, contentType) ==
  [t |-> "File", name |-> Untitled, bits |-> fileData.v, type |-> contentType]

UploadEncoded(base, token, params, e) ==
  IF ~Truthy(e.fileData) THEN Raised(NoFileData)
  ELSE Awaiting(ApiUploadFileRequest(base, token, params.path,
                                     FormData(File(e.fileData, e.contentType))))

uploadStringToStorageStart(base, token, params) ==
  IF ~StartsWith(params.path, <<"/">>) THEN Raised(PathFault)
  ELSE LET enc == EncodeString(params) IN
       IF enc.kind = "raised" THEN enc
       ELSE UploadEncoded(base, token, params, enc.value)

\* a variant that skips the check of the path
deleteFileStartUnchecked(base, token, path) ==
  Awaiting(ApiDeleteFileRequest(base, token, path))

deleteFileStart(base, token, path) ==
  IF ~StartsWith(path, <<"/">>) THEN Returned([error |-> PathFault])
  ELSE Awaiting(ApiDeleteFileRequest(base, token, path))

getS3MetadataStart(base, token, path) ==
  IF ~StartsWith(path, <<"/">>) THEN Returned([metadata |-> Null, error |-> PathFault])
  ELSE Awaiting(ApiGetMetadataRequest(base, token, path))

DestructureFault == Error("TypeError: cannot destructure")

\* const { metadata, error } = <the adapter's value>, and what follows
getS3MetadataResult(r) ==
  IF r.t \in {"null", "undefined"} THEN Raised(DestructureFault)
  ELSE IF Truthy(Prop(r, "error"))
       THEN Returned([metadata |-> Null, error |-> Prop(r, "error")])
       ELSE Returned([metadata |-> Prop(r, "metadata"), error |-> Null])

(***************************************************************************)
(* Bounds and inputs                                                       *)
(***************************************************************************)
\* the number of calls that may be in progress at once
NumSlots == 2

\* the longest generated data-URL payload
MaxPayloadLen == 2

Slots == 1..NumSlots

Url == <<"h", "t", "t", "p", ":", "/", "/", "s">>

Tenant == <<"t", "1">>

AppIds == {Null, Str(<<>>), Str(Tenant)}

Token1 == Str(<<"t", "1">>)

Token2 == Str(<<"t", "2">>)

Tokens == {Undefined, Str(<<>>), Token1, Token2}

FileIds == {<<"a", "b", "c">>}

GoodPath == <<"/", "p">>

Paths == {GoodPath, <<"p">>}

Blob == Obj("blob")

\* upload parameters whose identifying fields are drawn from V
UploadParams(V) == [file : {Blob}, bucketId : V, id : V, name : V]

FieldValues == {Undefined, Str(<<>>), Str(<<"b">>)}

TextPlain == <<"t", "e", "x", "t", "/", "p", "l", "a", "i", "n">>

NoContentType == [k \in {"t"} |-> "object"]

WithContentType(ct) == [k \in {"t", "content-type"} |-> IF k = "t" THEN "object" ELSE ct]

Metadatas == {Undefined, NoContentType, WithContentType(Str(TextPlain))}

StringParams(path, type, data, metadata) ==
  [path |-> path, type |-> type, data |-> data, metadata |-> metadata]

Hi == <<"h", "i">>

\* the string uploads of the concurrent specification
FewStringParams ==
  {StringParams(p, ty, Hi, Undefined) : p \in {GoodPath, <<"p">>},
                                        ty \in {Undefined, Str(DataUrlType)}}

\* sequences over S of length at most n
RECURSIVE SeqsUpTo(_, _)
SeqsUpTo(S, n) ==
  IF n = 0 THEN {<<>>}
  ELSE LET shorter == SeqsUpTo(S, n - 1)
       IN shorter \cup {Append(q, c) : q \in shorter, c \in S}

HelloBase64 == <<"S", "G", "V", "s", "b", "G", "8", "=">>

HelloWorldPercent ==
  <<"H", "e", "l", "l", "o", "%", "2", "0", "W", "o", "r", "l", "d">>

NotADataUrl ==
  <<"n", "o", "t", "-", "a", "-", "d", "a", "t", "a", "-", "u", "r", "l">>

Payloads ==
  SeqsUpTo({"a", "%", "2", ","}, MaxPayloadLen)
    \cup {HelloBase64, HelloWorldPercent, <<"Y", "Q", "=", "=">>, <<"%", "2", "0">>}

DataHeaders ==
  {<<>>, TextPlain, TextPlain \o Base64Suffix, Base64Suffix,
   Base64Suffix \o <<";", "x">>}

DataPrefixes == {<<>>, DataPrefix, <<"x">> \o DataPrefix, <<"d", "a", "t", "a">>}

DataStrings ==
  {pre \o hdr \o sep \o pay : pre \in DataPrefixes, hdr \in DataHeaders,
                              sep \in {<<>>, <<",">>}, pay \in Payloads}
    \cup {NotADataUrl}

\* the string uploads of the encoding specification
ManyStringParams ==
  {StringParams(p, Str(DataUrlType), d, Undefined) :
     p \in {GoodPath, <<"p">>, <<>>}, d \in DataStrings}
  \cup {StringParams(GoodPath, ty, d, m) :
          ty \in {Undefined, Str(<<>>), Str(RawType), Str(<<"b", "i", "n">>)},
          d \in {Hi, <<>>}, m \in Metadatas}

Timeout == AxiosError("timeout of 10000ms exceeded")

TransportFaults == {Timeout, AxiosError("Request failed with status code 500")}

Ok(data) == [ok |-> TRUE, data |-> data]

Fault(e) == [ok |-> FALSE, fault |-> e]

MetadataBody == [t |-> "object", metadata |-> Obj("metadata")]

ErrorBody == [t |-> "object", error |-> Obj("error")]

\* the bodies the service may answer a call with
ResponseBodies(op) ==
  CASE op \in {"upload", "uploadFileToStorage", "uploadStringToStorage"} ->
         {Null, Str(<<>>), Obj("fileMetadata")}
    [] op = "getPresignedUrl" -> {Null, Str(<<>>), Obj("presignedUrl")}
    [] op = "getS3Metadata" -> {Null, Str(<<>>), MetadataBody, ErrorBody}
    [] OTHER -> {Str(<<>>)}

\* how the HTTP call of an operation may settle, with the faults drawn from F
HttpOutcomes(op, F) ==
  {Ok(b) : b \in ResponseBodies(op)} \cup {Fault(e) : e \in F}

(***************************************************************************)
(* State                                                                   *)
(***************************************************************************)
VARIABLES
  url,          \* HasuraStorageClient.url, HasuraStorageApi.url
  appId,        \* HasuraStorageClient.appId, HasuraStorageApi.appId
  accessToken,  \* HasuraStorageApi.accessToken
  written,      \* history: the argument of the latest setAccessToken call
  inv           \* the calls in progress, one per slot

vars == <<url, appId, accessToken, written, inv>>

IdleSlot ==
  [op |-> "none", params |-> Undefined, phase |-> "idle", request |-> Null,
   netCalls |-> 0, http |-> Null, api |-> Null, outcome |-> Null]

\* a call after its synchronous part: suspended on its request, or complete
Started(op, params, st) ==
  IF st.kind = "await"
  THEN [op |-> op, params |-> params, phase |-> "inflight", request |-> st.request,
        netCalls |-> 1, http |-> Null, api |-> Null, outcome |-> Null]
  ELSE [op |-> op, params |-> params, phase |-> "done", request |-> Null,
        netCalls |-> 0, http |-> Null, api |-> Null, outcome |-> st]

\* the adapter method behind each facade operation, once the HTTP call settled
ApiSettle(op, http) ==
  CASE op = "upload" -> ApiUploadSettle(http)
    [] op = "getPresignedUrl" -> ApiGetPresignedUrlSettle(http)
    [] op = "delete" -> ApiDeleteSettle(http)
    [] op \in {"uploadFileToStorage", "uploadStringToStorage"} ->
         ApiUploadFileSettle(http)
    [] op = "deleteFile" -> ApiDeleteFileSettle(http)
    [] op = "getS3Metadata" -> ApiGetMetadataSettle(http)

\* the facade operation after its await of the adapter, which returned r
ClientResult(op, r) ==
  CASE op \in {"upload", "uploadFileToStorage", "uploadStringToStorage"} ->
         ClientUploadResult(r)
    [] op = "getPresignedUrl" -> ClientGetPresignedUrlResult(r)
    [] op \in {"delete", "deleteFile"} -> ClientDeleteResult(r)
    [] op = "getS3Metadata" -> getS3MetadataResult(r)

\* `await this.api.m(...)` and what follows: a rejection propagates
ClientSettle(op, api) ==
  IF api.kind = "raised" THEN api ELSE ClientResult(op, api.value)

Complete(rec, http) ==
  LET api == ApiSettle(rec.op, http) IN
  [rec EXCEPT !.phase = "done", !.request = Null, !.http = http, !.api = api,
              !.outcome = ClientSettle(rec.op, api)]

\* a variant that issues the request once more after a transport fault
SettledWithRetry(rec, http) ==
  IF ~http.ok /\ rec.netCalls < 2 THEN [rec EXCEPT !.netCalls = 2]
  ELSE Complete(rec, http)

\* a suspended call when its HTTP call settles: the adapter's continuation,
\* then the facade's
Settled(rec, http) == Complete(rec, http)

Init ==
  /\ url = Url
  /\ appId \in AppIds
  /\ accessToken = Undefined
  /\ written = Undefined
  /\ inv = [s \in Slots |-> IdleSlot]

Base == BaseURL(url, appId)

Begin(s, op, params, st) ==
  /\ inv[s].phase = "idle"
  /\ inv' = [inv EXCEPT ![s] = Started(op, params, st)]
  /\ UNCHANGED <<url, appId, accessToken, written>>

SetAccessToken(t) ==
  /\ accessToken' = setAccessToken(accessToken, t)
  /\ written' = t
  /\ UNCHANGED <<url, appId, inv>>

Upload(s, V) ==
  \E params \in UploadParams(V) :
    Begin(s, "upload", params, ClientUploadStart(Base, accessToken, params))

GetUrl(s) ==
  \E f \in FileIds :
    Begin(s, "getUrl", [fileId |-> f],
          Returned(Str(getUrl(url, appId, [fileId |-> f]))))

GetPresignedUrl(s) ==
  \E f \in FileIds :
    Begin(s, "getPresignedUrl", [fileId |-> f],
          ClientGetPresignedUrlStart(Base, accessToken, [fileId |-> f]))

Delete(s) ==
  \E f \in FileIds :
    Begin(s, "delete", [fileId |-> f],
          ClientDeleteStart(Base, accessToken, [fileId |-> f]))

UploadFileToStorage(s) ==
  \E p \in Paths :
    LET params == [path |-> p, file |-> Blob] IN
    Begin(s, "uploadFileToStorage", params,
          uploadFileToStorageStart(Base, accessToken, params))

UploadStringToStorage(s, P) ==
  \E params \in P :
    Begin(s, "uploadStringToStorage", params,
          uploadStringToStorageStart(Base, accessToken, params))

DeleteFile(s) ==
  \E p \in Paths :
    Begin(s, "deleteFile", [path |-> p], deleteFileStart(Base, accessToken, p))

GetS3Metadata(s) ==
  \E p \in Paths :
    Begin(s, "getS3Metadata", [path |-> p], getS3MetadataStart(Base, accessToken, p))

\* the HTTP call of a suspended call settles
HttpRespond(s, F) ==
  /\ inv[s].phase = "inflight"
  /\ \E http \in HttpOutcomes(inv[s].op, F) :
       inv' = [inv EXCEPT ![s] = Settled(inv[s], http)]
  /\ UNCHANGED <<url, appId, accessToken, written>>

\* the caller takes the result of a complete call
Return(s) ==
  /\ inv[s].phase = "done"
  /\ inv' = [inv EXCEPT ![s] = IdleSlot]
  /\ UNCHANGED <<url, appId, accessToken, written>>

\* concurrent calls of every operation, with the token set and cleared between
Next ==
  \/ \E t \in {Undefined, Str(<<>>), Token1} : SetAccessToken(t)
  \/ \E s \in Slots : Upload(s, {Undefined})
  \/ \E s \in Slots : GetUrl(s)
  \/ \E s \in Slots : GetPresignedUrl(s)
  \/ \E s \in Slots : Delete(s)
  \/ \E s \in Slots : UploadFileToStorage(s)
  \/ \E s \in Slots : UploadStringToStorage(s, FewStringParams)
  \/ \E s \in Slots : DeleteFile(s)
  \/ \E s \in Slots : GetS3Metadata(s)
  \/ \E s \in Slots : HttpRespond(s, {Timeout})
  \/ \E s \in Slots : Return(s)

Spec == Init /\ [][Next]_vars

\* one string upload at a time, over many data strings
NextEnc ==
  \/ UploadStringToStorage(1, ManyStringParams)
  \/ HttpRespond(1, TransportFaults)
  \/ Return(1)

SpecEnc == Init /\ [][NextEnc]_vars

\* one upload at a time, over every combination of identifying fields
NextHdr ==
  \/ \E t \in Tokens : SetAccessToken(t)
  \/ Upload(1, FieldValues)
  \/ HttpRespond(1, TransportFaults)
  \/ Return(1)

SpecHdr == Init /\ [][NextHdr]_vars
(***************************************************************************)
(* Properties                                                              *)
(***************************************************************************)
\* a path with a leading slash, stated on the characters
LeadingSlash(path) == Len(path) >= 1 /\ path[1] = "/"

\* a string of the shape data:<no commas>,<anything>
MatchesDataUrlPattern(d) ==
  /\ Len(d) >= 6
  /\ <<d[1], d[2], d[3], d[4], d[5]>> = <<"d", "a", "t", "a", ":">>
  /\ \E i \in 6..Len(d) : d[i] = ","

\* the position of the first comma of d
FirstComma(d) == CHOOSE i \in 1..Len(d) : d[i] = "," /\ \A j \in 1..(i - 1) : d[j] # ","

HasHeader(req, name) == name \in DOMAIN req.headers

PathOps == {"uploadFileToStorage", "deleteFile", "getS3Metadata"}

\* C1 as stated: each of uploadFileToStorage, deleteFile and getS3Metadata,
\* given a path without a leading "/", returns the path fault as the error of
\* its result and issues no request; given a path with one, issues the request.
C1_Original ==
  \A s \in Slots :
    inv[s].op \in PathOps =>
      IF LeadingSlash(inv[s].params.path)
      THEN inv[s].netCalls = 1
      ELSE /\ inv[s].phase = "done"
           /\ inv[s].netCalls = 0
           /\ inv[s].outcome.kind = "returned"
           /\ inv[s].outcome.value.error = PathFault

\* C1 amended: given a path without a leading "/", deleteFile and
\* getS3Metadata return the path fault as the error of their result while
\* uploadFileToStorage raises it, each without issuing a request; given a path
\* with a leading "/", each issues the request.
C1_PathValidation ==
  \A s \in Slots :
    inv[s].op \in PathOps =>
      IF LeadingSlash(inv[s].params.path)
      THEN inv[s].netCalls = 1
      ELSE /\ inv[s].phase = "done"
           /\ inv[s].netCalls = 0
           /\ inv[s].request = Null
           /\ IF inv[s].op = "uploadFileToStorage"
              THEN inv[s].outcome = Raised(PathFault)
              ELSE /\ inv[s].outcome.kind = "returned"
                   /\ inv[s].outcome.value.error = PathFault

C1_Witness ==
  \E s, t \in Slots :
    /\ inv[s].op = "uploadFileToStorage" /\ inv[s].phase = "done"
    /\ ~LeadingSlash(inv[s].params.path) /\ inv[s].outcome.kind = "raised"
    /\ inv[t].op = "deleteFile" /\ inv[t].phase = "done"
    /\ ~LeadingSlash(inv[t].params.path) /\ inv[t].outcome.kind = "returned"

NormalizedOps ==
  {"upload", "uploadFileToStorage", "uploadStringToStorage", "getPresignedUrl"}

\* the value field of the result of a normalized operation
ResultValue(op, r) == IF op = "getPresignedUrl" THEN r.presignedUrl ELSE r.fileMetadata

\* C2: the pair returned by upload, uploadFileToStorage, uploadStringToStorage
\* and getPresignedUrl has exactly one of value and error non-null, and an
\* adapter result with an empty value and a null error becomes a null value
\* with the fault "Invalid file returned" ("Invalid file id" for the URL).
C2_ExactlyOne ==
  \A s \in Slots :
    (inv[s].op \in NormalizedOps /\ inv[s].phase = "done"
       /\ inv[s].outcome.kind = "returned") =>
      LET r == inv[s].outcome.value
          value == ResultValue(inv[s].op, r)
      IN /\ (value = Null) # (r.error = Null)
         /\ (inv[s].http # Null /\ inv[s].http.ok
               /\ inv[s].http.data \in {Null, Undefined, Str(<<>>)}) =>
              /\ value = Null
              /\ r.error = IF inv[s].op = "getPresignedUrl"
                           THEN Error("Invalid file id")
                           ELSE Error("Invalid file returned")

C2_Witness ==
  \E s \in Slots :
    /\ inv[s].op = "upload" /\ inv[s].phase = "done"
    /\ inv[s].api = Returned([fileMetadata |-> Str(<<>>), error |-> Null])
    /\ inv[s].outcome.value.error = Error("Invalid file returned")

\* C3: a request carries Authorization: Bearer <t> exactly when the latest
\* setAccessToken call wrote a non-empty token t, and no Authorization header
\* otherwise (nothing written yet, undefined written, or the empty string).
C3_AuthFollowsToken ==
  [][\A s \in Slots :
       (inv[s].phase = "idle" /\ inv'[s].phase = "inflight") =>
         LET req == inv'[s].request IN
         IF written \in {Undefined, Str(<<>>)}
         THEN ~HasHeader(req, "Authorization")
         ELSE /\ HasHeader(req, "Authorization")
              /\ req.headers["Authorization"] = <<"B", "e", "a", "r", "e", "r", " ">> \o written.v]_vars

C3_Witness ==
  /\ written = Undefined
  /\ \E s, t \in Slots :
       /\ inv[s].phase = "inflight" /\ HasHeader(inv[s].request, "Authorization")
       /\ inv[t].phase = "inflight" /\ ~HasHeader(inv[t].request, "Authorization")

\* C4: when the HTTP call fails, every adapter method but getMetadata returns
\* a result with a null value and that fault as its error, and never raises;
\* getMetadata raises the fault.
C4_AdapterCatches ==
  \A s \in Slots :
    (inv[s].phase = "done" /\ inv[s].http # Null) =>
      IF inv[s].op = "getS3Metadata"
      THEN ~inv[s].http.ok => inv[s].api = Raised(inv[s].http.fault)
      ELSE /\ inv[s].api.kind = "returned"
           /\ ~inv[s].http.ok =>
                /\ inv[s].api.value.error = inv[s].http.fault
                /\ \A k \in DOMAIN inv[s].api.value \ {"error"} :
                     inv[s].api.value[k] = Null

C4_Witness ==
  \E s, t \in Slots :
    /\ inv[s].op = "upload" /\ inv[s].phase = "done"
    /\ inv[s].http = Fault(Timeout) /\ inv[s].api.kind = "returned"
    /\ inv[t].op = "getS3Metadata" /\ inv[t].phase = "done"
    /\ inv[t].http = Fault(Timeout) /\ inv[t].api.kind = "raised"

ReturningOps ==
  {"upload", "getPresignedUrl", "delete", "uploadFileToStorage",
   "uploadStringToStorage", "deleteFile"}

\* C5 as stated: upload, getPresignedUrl, delete, uploadFileToStorage,
\* uploadStringToStorage and deleteFile never complete by raising.
C5_Original ==
  \A s \in Slots :
    (inv[s].op \in ReturningOps /\ inv[s].phase = "done") =>
      inv[s].outcome.kind = "returned"

\* C5 amended: once its request is issued, none of the six operations raises:
\* it returns a result, whose error is the transport fault when the HTTP call
\* failed.  Before the request, deleteFile returns its path fault in the error
\* field, while uploadFileToStorage and uploadStringToStorage raise their
\* local faults (path, data-URL format, no file data).
C5_RaisesOnlyLocally ==
  \A s \in Slots :
    (inv[s].op \in ReturningOps /\ inv[s].phase = "done") =>
      IF inv[s].netCalls > 0
      THEN /\ inv[s].outcome.kind = "returned"
           /\ ~inv[s].http.ok => inv[s].outcome.value.error = inv[s].http.fault
      ELSE IF inv[s].op = "deleteFile"
           THEN inv[s].outcome = Returned([error |-> PathFault])
           ELSE /\ inv[s].op \in {"uploadFileToStorage", "uploadStringToStorage"}
                /\ inv[s].outcome.kind = "raised"
                /\ inv[s].outcome.error \in {PathFault, DataUrlFormatFault, NoFileData}

C5_Witness ==
  \E s, t \in Slots :
    /\ inv[s].op = "uploadStringToStorage" /\ inv[s].phase = "done"
    /\ LeadingSlash(inv[s].params.path)
    /\ inv[s].outcome = Raised(DataUrlFormatFault)
    /\ inv[t].op = "delete" /\ inv[t].phase = "done"
    /\ inv[t].outcome = Returned([error |-> Timeout])

\* what C6 says a matching data URL yields
DataUrlYield(d) ==
  LET comma == FirstComma(d)
      header == SubSeq(d, 6, comma - 1)
      payload == SubSeq(d, comma + 1, Len(d))
      suffix == <<";", "b", "a", "s", "e", "6", "4">>
  IN IF header # <<>> /\ Len(header) >= 7
          /\ SubSeq(header, Len(header) - 6, Len(header)) = suffix
     THEN [bits |-> base64Bytes(payload),
           type |-> Str(SubSeq(header, 1, Len(header) - 7))]
     ELSE [bits |-> percentEncodedBytes(payload),
           type |-> IF header # <<>> THEN Str(header) ELSE Undefined]

IsDataUrlUpload(s) ==
  /\ inv[s].op = "uploadStringToStorage"
  /\ LeadingSlash(inv[s].params.path)
  /\ inv[s].params.type = Str(<<"d", "a", "t", "a", "_", "u", "r", "l">>)

Example1 ==
  <<"d", "a", "t", "a", ":", "t", "e", "x", "t", "/", "p", "l", "a", "i", "n",
    ";", "b", "a", "s", "e", "6", "4", ",", "S", "G", "V", "s", "b", "G", "8", "=">>

Example2 ==
  <<"d", "a", "t", "a", ":", "t", "e", "x", "t", "/", "p", "l", "a", "i", "n",
    ",", "H", "e", "l", "l", "o", "%", "2", "0", "W", "o", "r", "l", "d">>

\* C6: the file uploaded for a matching data URL holds the payload after the
\* first comma, base64-decoded when the header ends with ";base64" (the
\* content type being the header without it) and percent-decoded otherwise
\* (the content type being the whole header, or unset without a header); the
\* two examples yield "Hello" and "Hello World" as text/plain.
C6_DataUrlDecoding ==
  \A s \in Slots :
    (IsDataUrlUpload(s) /\ MatchesDataUrlPattern(inv[s].params.data)) =>
      LET d == inv[s].params.data
          y == DataUrlYield(d)
          file == inv[s].request.body.file
      IN /\ inv[s].netCalls = IF y.bits = Malformed THEN 0 ELSE 1
         /\ inv[s].phase = "inflight" =>
              /\ file.bits = y.bits.v
              /\ file.type = y.type
              /\ d = Example1 =>
                   /\ file.bits = <<72, 101, 108, 108, 111>>
                   /\ file.type = Str(<<"t", "e", "x", "t", "/", "p", "l", "a", "i", "n">>)
              /\ d = Example2 =>
                   /\ file.bits = <<72, 101, 108, 108, 111, 32, 87, 111, 114, 108, 100>>
                   /\ file.type = Str(<<"t", "e", "x", "t", "/", "p", "l", "a", "i", "n">>)

C6_Witness ==
  \E s \in Slots :
    /\ IsDataUrlUpload(s) /\ inv[s].phase = "inflight"
    /\ inv[s].params.data = Example1
    /\ inv[s].request.body.file.bits = <<72, 101, 108, 108, 111>>

\* C7: a data_url upload with a valid path whose data does not match the
\* pattern fails with the format fault and issues no request.
C7_FormatFault ==
  \A s \in Slots :
    (IsDataUrlUpload(s) /\ ~MatchesDataUrlPattern(inv[s].params.data)) =>
      /\ inv[s].phase = "done"
      /\ inv[s].netCalls = 0
      /\ inv[s].request = Null
      /\ inv[s].outcome =
           Raised(ThrownString("Data must be formatted 'data:[<mediatype>][;base64],<data>"))

C7_Witness ==
  \E s \in Slots :
    /\ IsDataUrlUpload(s) /\ inv[s].phase = "done"
    /\ inv[s].params.data = NotADataUrl
    /\ inv[s].outcome.kind = "raised"

\* C8: getUrl issues no request and returns {url}/files/{fileId} without a
\* tenant namespace and /custom/storage/{t}/o/{fileId} with the namespace t,
\* whatever the access token and the other calls.
C8_GetUrl ==
  \A s \in Slots :
    inv[s].op = "getUrl" =>
      /\ inv[s].phase = "done"
      /\ inv[s].netCalls = 0
      /\ inv[s].request = Null
      /\ inv[s].outcome =
           Returned(Str(
             IF appId \in {Null, Str(<<>>)}
             THEN url \o <<"/", "f", "i", "l", "e", "s", "/">> \o inv[s].params.fileId
             ELSE <<"/", "c", "u", "s", "t", "o", "m", "/", "s", "t", "o", "r", "a", "g", "e", "/">>
                    \o appId.v \o <<"/", "o", "/">> \o inv[s].params.fileId))

C8_Witness ==
  \E s \in Slots :
    /\ inv[s].op = "getUrl" /\ appId = Str(<<"t", "1">>) /\ accessToken = Token1
    /\ inv[s].outcome.value.v =
         <<"/", "c", "u", "s", "t", "o", "m", "/", "s", "t", "o", "r", "a", "g", "e", "/",
           "t", "1", "/", "o", "/", "a", "b", "c">>

UploadHeaderOf ==
  [bucketId |-> "x-nhost-bucket-id", id |-> "x-nhost-file-id", name |-> "x-nhost-file-name"]

FaultGiven(c) == IF c.kind = "raised" THEN c.error ELSE c.value.error

\* C10: a call issues at most one request, and when its request fails it is
\* complete with that fault, having issued no other, whatever the other calls do.
C10_NoRetry ==
  \A s \in Slots :
    /\ inv[s].netCalls <= 1
    /\ inv[s].phase = "inflight" => inv[s].netCalls = 1
    /\ (inv[s].http # Null /\ ~inv[s].http.ok) =>
         /\ inv[s].phase = "done"
         /\ inv[s].netCalls = 1
         /\ FaultGiven(inv[s].outcome) = inv[s].http.fault

C10_Witness ==
  \E s, t \in Slots :
    /\ inv[s].phase = "done" /\ inv[s].http = Fault(Timeout) /\ inv[s].netCalls = 1
    /\ inv[t].phase = "inflight" /\ inv[t].netCalls = 1
====
